---- MODULE Spec2Model ----
(***************************************************************************)
(* DataFormsJS web-component utilities (js/web-components/utils.js) and    *)
(* the <animation-service> component (js/web-components/                   *)
(* animation-service.js) as state machines.                                *)
(*                                                                         *)
(* JavaScript strings are sequences of one-character strings, so that      *)
(* indexOf, substring, split and replace are computed character by         *)
(* character.  JavaScript values of mixed type are tagged records          *)
(* [t |-> type, v |-> value].  Each subsystem has its own variables and    *)
(* its own specification; the variables of the other subsystems stay at    *)
(* their idle values.                                                      *)
(***************************************************************************)
EXTENDS Integers, Sequences, FiniteSets, TLC

VARIABLES
    escIn, escOut,
    parentNode, walkElement, walkNode, walkPc, walkResult,
    definitions, notSetup, setupPc, undefinedComponents, loopCount, interval,
    resolved, resolvingPoll,
    polyfillIsNeeded, webComponentPolyfills, listeners, domContentLoaded,
    supportsIs, checkDefinition, probeCount, polyfillCalls, runPolyfillCalls,
    registered, setupLog, alertLog, lastCall, atLoad,
    element, bindList, bindPc, data, attributes, attr, value, tmplLoopCount,
    original, lastData, rebound, substitutions,
    classList, intersecting, observers, loads

escVars == <<escIn, escOut>>
domVars == <<parentNode, walkElement, walkNode, walkPc, walkResult>>
setupVars == <<definitions, notSetup, setupPc, undefinedComponents, loopCount,
               interval, resolved, resolvingPoll>>
polyVars == <<polyfillIsNeeded, webComponentPolyfills, listeners, domContentLoaded,
              supportsIs, checkDefinition, probeCount, polyfillCalls,
              runPolyfillCalls, registered, setupLog, alertLog, lastCall,
              atLoad>>
bindVars == <<element, bindList, bindPc, data, attributes, attr, value,
              tmplLoopCount, original, lastData, rebound, substitutions>>
animVars == <<classList, intersecting, observers, loads>>

vars == <<escVars, domVars, setupVars, polyVars, bindVars, animVars>>

\* ------------------------------------------------------------------------
\* Model bounds
\* ------------------------------------------------------------------------

\* Longest string handed to escapeHtml.
MaxEscLen == 3

\* Number of nodes other than the document in the node graph of isAttachedToDom.
MaxNodes == 3

\* Most entries pushed to window._webComponentPolyfills.
MaxPolyfills == 2

\* Most calls of polyfillCustomElements in one run.
MaxCalls == 3

\* Longest attribute template drawn from the template alphabet.
MaxTmplLen == 3

\* Number of elements with [data-animate] in the page.
MaxAnimated == 2

\* Most runs of the animation service's onLoad.
MaxLoads == 2

\* Most entries an IntersectionObserver holds before its callback runs.
MaxQueue == 2

\* ------------------------------------------------------------------------
\* JavaScript values and strings
\* ------------------------------------------------------------------------

JsUndefined == [t |-> "undefined"]
JsNull == [t |-> "null"]
JsNumber(n) == [t |-> "number", v |-> n]
JsBoolean(b) == [t |-> "boolean", v |-> b]
JsString(s) == [t |-> "string", v |-> s]

\* All sequences over S of length at most n.
SeqsUpTo(S, n) == UNION {[1..k -> S] : k \in 0..n}

\* The concatenation of a sequence of strings.
RECURSIVE Concat(_)
Concat(ss) == IF ss = <<>> THEN <<>> ELSE Head(ss) \o Concat(Tail(ss))

\* String.prototype.replace(/ch/g, repl) for a one-character pattern.
RECURSIVE ReplaceAll(_, _, _)
ReplaceAll(s, ch, repl) ==
    IF s = <<>> THEN <<>>
    ELSE (IF Head(s) = ch THEN repl ELSE <<Head(s)>>) \o ReplaceAll(Tail(s), ch, repl)

\* String(text) for the value types of the model.
ToJsString(text) ==
    CASE text.t = "string" -> text.v
      [] text.t = "boolean" -> IF text.v THEN <<"t", "r", "u", "e">>
                                         ELSE <<"f", "a", "l", "s", "e">>
      [] text.t = "null" -> <<"n", "u", "l", "l">>
      [] text.t = "undefined" -> <<"u", "n", "d", "e", "f", "i", "n", "e", "d">>
      [] text.t = "object" ->
            <<"[", "o", "b", "j", "e", "c", "t", " ", "O", "b", "j", "e", "c", "t", "]">>
      [] text.t = "window" ->
            <<"[", "o", "b", "j", "e", "c", "t", " ", "W", "i", "n", "d", "o", "w", "]">>
      [] OTHER -> <<"?">>

\* String.prototype.indexOf(ch): the 0-based place of the first ch, or -1.
RECURSIVE IndexFrom(_, _, _)
IndexFrom(s, ch, i) ==
    IF i > Len(s) THEN 0 - 1
    ELSE IF s[i] = ch THEN i - 1
    ELSE IndexFrom(s, ch, i + 1)

IndexOf(s, ch) == IndexFrom(s, ch, 1)

\* String.prototype.substring(start, end) for 0 <= start <= end <= length.
Substring(s, start, end) == SubSeq(s, start + 1, end)

\* String.prototype.split(sep) for a one-character separator.
RECURSIVE Split(_, _)
Split(s, sep) ==
    LET pos == IndexOf(s, sep) IN
    IF pos = 0 - 1 THEN <<s>>
    ELSE <<Substring(s, 0, pos)>> \o Split(Substring(s, pos + 1, Len(s)), sep)

\* String.prototype.trim() on a string whose only white space is " ".
RECURSIVE Trim(_)
Trim(s) ==
    IF s = <<>> THEN s
    ELSE IF Head(s) = " " THEN Trim(Tail(s))
    ELSE IF s[Len(s)] = " " THEN Trim(SubSeq(s, 1, Len(s) - 1))
    ELSE s

\* ------------------------------------------------------------------------
\* escapeHtml
\* ------------------------------------------------------------------------

EntAmp == <<"&", "a", "m", "p", ";">>
EntQuot == <<"&", "q", "u", "o", "t", ";">>
EntApos == <<"&", "#", "0", "3", "9", ";">>
EntLt == <<"&", "l", "t", ";">>
EntGt == <<"&", "g", "t", ";">>

\* A slip in the order of the replacements: & is replaced last, so the & of
\* the entities already produced is escaped again.
escapeHtmlAmpLast(text) ==
    IF text.t \in {"undefined", "null", "number"}
    THEN text
    ELSE JsString(
        ReplaceAll(ReplaceAll(ReplaceAll(ReplaceAll(ReplaceAll(
            ToJsString(text), "\"", EntQuot), "'", EntApos),
            "<", EntLt), ">", EntGt), "&", EntAmp))

escapeHtml(text) ==
    IF text.t \in {"undefined", "null", "number"}
    THEN text
    ELSE JsString(
        ReplaceAll(ReplaceAll(ReplaceAll(ReplaceAll(ReplaceAll(
            ToJsString(text), "&", EntAmp), "\"", EntQuot), "'", EntApos),
            "<", EntLt), ">", EntGt))

EscChars == {"&", "\"", "'", "<", ">", ";", "a"}

EscInputs ==
    {JsUndefined, JsNull, JsNumber(0), JsNumber(7), JsBoolean(TRUE), JsBoolean(FALSE)}
        \cup {JsString(s) : s \in SeqsUpTo(EscChars, MaxEscLen)}

NotCalled == [t |-> "not-called"]

InitEsc ==
    /\ escIn \in EscInputs
    /\ escOut = NotCalled

IdleEsc ==
    /\ escIn = JsUndefined
    /\ escOut = NotCalled

CallEscapeHtml ==
    /\ escOut = NotCalled
    /\ escOut' = escapeHtml(escIn)
    /\ UNCHANGED escIn
    /\ UNCHANGED <<domVars, setupVars, polyVars, bindVars, animVars>>

\* ------------------------------------------------------------------------
\* isAttachedToDom
\* ------------------------------------------------------------------------

Document == 0
NoNode == -1
DomNodes == 0..MaxNodes

\* The nodes reached from n by following parentNode links at least once.
RECURSIVE AncestorsIn(_, _, _)
AncestorsIn(pn, n, fuel) ==
    IF fuel = 0 \/ pn[n] = NoNode THEN {}
    ELSE {pn[n]} \cup AncestorsIn(pn, pn[n], fuel - 1)

\* A finite forest: the document has no parent and no node is its own ancestor.
IsForest(pn) ==
    /\ pn[Document] = NoNode
    /\ \A n \in DomNodes : n \notin AncestorsIn(pn, n, MaxNodes + 1)

InitDom ==
    /\ parentNode \in {pn \in [DomNodes -> DomNodes \cup {NoNode}] : IsForest(pn)}
    /\ walkElement \in DomNodes
    /\ walkNode = NoNode
    /\ walkPc = "call"
    /\ walkResult = FALSE

IdleDom ==
    /\ parentNode = [n \in DomNodes |-> NoNode]
    /\ walkElement = Document
    /\ walkNode = NoNode
    /\ walkPc = "call"
    /\ walkResult = FALSE

\* let node = element.parentNode;
IsAttachedEnter ==
    /\ walkPc = "call"
    /\ walkNode' = parentNode[walkElement]
    /\ walkPc' = "while"
    /\ UNCHANGED <<parentNode, walkElement, walkResult>>
    /\ UNCHANGED <<escVars, setupVars, polyVars, bindVars, animVars>>

\* One turn of the while loop: step to the parent, return true on the document.
IsAttachedLoop ==
    /\ walkPc = "while"
    /\ walkNode # NoNode
    /\ walkNode' = parentNode[walkNode]
    /\ IF parentNode[walkNode] = Document
       THEN walkPc' = "returned" /\ walkResult' = TRUE
       ELSE walkPc' = "while" /\ walkResult' = walkResult
    /\ UNCHANGED <<parentNode, walkElement>>
    /\ UNCHANGED <<escVars, setupVars, polyVars, bindVars, animVars>>

\* The loop condition fails: return false.
IsAttachedExit ==
    /\ walkPc = "while"
    /\ walkNode = NoNode
    /\ walkPc' = "returned"
    /\ walkResult' = FALSE
    /\ UNCHANGED <<parentNode, walkElement, walkNode>>
    /\ UNCHANGED <<escVars, setupVars, polyVars, bindVars, animVars>>

\* ------------------------------------------------------------------------
\* componentsAreSetup
\* ------------------------------------------------------------------------

maxLoops == 1000

\* The custom elements of the document: an autonomous element <x-a> and a
\* customized built-in element <div is="x-b">.  An absent [is] is "".
SetupElements ==
    {[localName |-> "x-a", is |-> ""], [localName |-> "div", is |-> "x-b"]}

CustomElementNames == {"x-a", "x-b"}

\* What customElements.define() can register under a name: an autonomous
\* element, or a customized built-in extending the given local name.
DefinitionKinds == {"autonomous", "div", "span"}

\* c.getAttribute('is') || c.localName
WhenDefinedName(c) == IF c.is # "" THEN c.is ELSE c.localName

\* The :defined pseudo-class of a custom element: the registry holds a
\* definition under the element's name that is for this kind of element.
IsDefined(c, defs) ==
    IF c.is # "" THEN defs[c.is] = c.localName
    ELSE defs[c.localName] = "autonomous"

\* A slip: the promises are raced, one definition is enough to go on.
AnyWhenDefined(components, defs) ==
    \E c \in components : defs[WhenDefinedName(c)] # "undefined"

\* await Promise.all(promises): every whenDefined(name) promise is resolved.
AllWhenDefined(components, defs) ==
    \A c \in components : defs[WhenDefinedName(c)] # "undefined"

NoPoll == [loopCount |-> 0 - 1, notSetup |-> {}]

InitSetup ==
    /\ definitions \in [CustomElementNames -> {"undefined"} \cup DefinitionKinds]
    /\ notSetup \in SUBSET SetupElements
    /\ setupPc = "idle"
    /\ undefinedComponents = {}
    /\ loopCount = 0
    /\ interval = FALSE
    /\ resolved = FALSE
    /\ resolvingPoll = NoPoll

IdleSetup ==
    /\ definitions = [n \in CustomElementNames |-> "undefined"]
    /\ notSetup = {}
    /\ setupPc = "idle"
    /\ undefinedComponents = {}
    /\ loopCount = 0
    /\ interval = FALSE
    /\ resolved = FALSE
    /\ resolvingPoll = NoPoll

\* window.customElements.define(name, cls[, {extends}]) run by a component script.
CustomElementsDefine(name, kind) ==
    /\ definitions[name] = "undefined"
    /\ definitions' = [definitions EXCEPT ![name] = kind]
    /\ UNCHANGED <<notSetup, setupPc, undefinedComponents, loopCount, interval,
                   resolved, resolvingPoll>>
    /\ UNCHANGED <<escVars, domVars, polyVars, bindVars, animVars>>

\* A component puts the [not-setup] attribute on its element.
SetNotSetup(c) ==
    /\ c \notin notSetup
    /\ notSetup' = notSetup \cup {c}
    /\ UNCHANGED <<definitions, setupPc, undefinedComponents, loopCount, interval,
                   resolved, resolvingPoll>>
    /\ UNCHANGED <<escVars, domVars, polyVars, bindVars, animVars>>

\* A component removes the [not-setup] attribute once it is ready.
RemoveNotSetup(c) ==
    /\ c \in notSetup
    /\ notSetup' = notSetup \ {c}
    /\ UNCHANGED <<definitions, setupPc, undefinedComponents, loopCount, interval,
                   resolved, resolvingPoll>>
    /\ UNCHANGED <<escVars, domVars, polyVars, bindVars, animVars>>

\* componentsAreSetup() up to its await, or up to setInterval when nothing is
\* undefined.
ComponentsAreSetup ==
    /\ setupPc = "idle"
    /\ LET undef == {c \in SetupElements : ~IsDefined(c, definitions)} IN
        /\ undefinedComponents' = undef
        /\ IF Cardinality(undef) > 0
           THEN setupPc' = "await" /\ interval' = FALSE
           ELSE setupPc' = "polling" /\ interval' = TRUE
    /\ loopCount' = 0
    /\ UNCHANGED <<definitions, notSetup, resolved, resolvingPoll>>
    /\ UNCHANGED <<escVars, domVars, polyVars, bindVars, animVars>>

\* The await returns: maxLoops, loopCount and the interval are set up.
AwaitResumes ==
    /\ setupPc = "await"
    /\ AllWhenDefined(undefinedComponents, definitions)
    /\ setupPc' = "polling"
    /\ loopCount' = 0
    /\ interval' = TRUE
    /\ UNCHANGED <<definitions, notSetup, undefinedComponents, resolved, resolvingPoll>>
    /\ UNCHANGED <<escVars, domVars, polyVars, bindVars, animVars>>

\* The interval callback.
IntervalCallback ==
    /\ setupPc = "polling"
    /\ interval
    /\ IF Cardinality(notSetup) = 0 \/ loopCount > maxLoops
       THEN /\ interval' = FALSE
            /\ resolved' = TRUE
            /\ resolvingPoll' = [loopCount |-> loopCount, notSetup |-> notSetup]
       ELSE UNCHANGED <<interval, resolved, resolvingPoll>>
    /\ loopCount' = loopCount + 1
    /\ UNCHANGED <<definitions, notSetup, setupPc, undefinedComponents>>
    /\ UNCHANGED <<escVars, domVars, polyVars, bindVars, animVars>>

\* ------------------------------------------------------------------------
\* polyfillCustomElements, defineExtendsPolyfill, runPolyfill
\* ------------------------------------------------------------------------

\* The page: a container <div> holding a sortable table and a filter input,
\* a second sortable table outside the container, and an <input> whose [is]
\* names a polyfill that extends another tag.  Ids are in document order;
\* parent 0 is the document.
PageElements ==
    <<[localName |-> "div", is |-> "", parent |-> 0],
      [localName |-> "table", is |-> "sortable-table", parent |-> 1],
      [localName |-> "input", is |-> "input-filter", parent |-> 1],
      [localName |-> "table", is |-> "sortable-table", parent |-> 0],
      [localName |-> "input", is |-> "sortable-table", parent |-> 4]>>

PageIds == 1..Len(PageElements)

\* The rootElement arguments: the document (the default), the container, a
\* table that itself matches a polyfill, and the second table.
RootElements == {Document, 1, 2, 4}

\* The {element, extendsElement, setup} objects that components register.
PolyfillEntries ==
    {[element |-> "sortable-table", extendsElement |-> "table", setup |-> "setupTable"],
     [element |-> "input-filter", extendsElement |-> "input", setup |-> "setupInput"]}

\* Whether element id e is a descendant of root.
RECURSIVE IsUnder(_, _)
IsUnder(e, root) ==
    IF e = Document THEN FALSE
    ELSE PageElements[e].parent = root \/ IsUnder(PageElements[e].parent, root)

\* rootElement.querySelectorAll(`${extendsElement}[is="${element}"]`): the
\* matching descendants of rootElement, in document order.
QuerySelectorAll(root, polyfill) ==
    SelectSeq([i \in PageIds |-> i],
              LAMBDA e : /\ IsUnder(e, root)
                         /\ PageElements[e].localName = polyfill.extendsElement
                         /\ PageElements[e].is = polyfill.element)

\* document.addEventListener(type, fn) as if every call added a new listener
\* (what an anonymous function would do).
AddEventListenerAlways(ls, fn) == Append(ls, fn)

\* document.addEventListener(type, fn): a listener already in the list is not
\* added again.
AddEventListener(ls, fn) ==
    IF \E i \in 1..Len(ls) : ls[i] = fn THEN ls ELSE Append(ls, fn)

\* A slip in the test of the cached flag: `!polyfillIsNeeded` is also true of
\* a cached false.
ProbeIsDueFalsy(flag) == flag = JsNull \/ flag = JsBoolean(FALSE)

\* polyfillIsNeeded === null
ProbeIsDue(flag) == flag = JsNull

\* The inner loop with the try/catch around the loop instead of inside it: the
\* first exception ends the loop over the elements of this polyfill.
RECURSIVE ForElementsCatchOutside(_, _, _, _)
ForElementsCatchOutside(i, elements, throwing, acc) ==
    IF elements = <<>> THEN acc
    ELSE LET el == Head(elements) IN
         IF el \in throwing
         THEN [acc EXCEPT !.setupLog = Append(@, <<i, el>>),
                          !.alertLog = Append(@, <<i, el>>)]
         ELSE ForElementsCatchOutside(i, Tail(elements), throwing,
                  [acc EXCEPT !.setupLog = Append(@, <<i, el>>)])

\* for (const element of elements) { try { polyfill.setup(element) }
\*                                    catch (e) { showErrorAlert(e) } }
RECURSIVE ForElements(_, _, _, _)
ForElements(i, elements, throwing, acc) ==
    IF elements = <<>> THEN acc
    ELSE LET el == Head(elements) IN
         ForElements(i, Tail(elements), throwing,
             [acc EXCEPT !.setupLog = Append(@, <<i, el>>),
                         !.alertLog = IF el \in throwing
                                      THEN Append(@, <<i, el>>) ELSE @])

\* for (const polyfill of window._webComponentPolyfills) { ... }
RECURSIVE ForPolyfills(_, _, _, _, _)
ForPolyfills(i, polyfills, root, throwing, acc) ==
    IF i > Len(polyfills) THEN acc
    ELSE ForPolyfills(i + 1, polyfills, root, throwing,
             ForElements(i, QuerySelectorAll(root, polyfills[i]), throwing, acc))

\* polyfillCustomElements(rootElement) on the module state st; throwing is
\* the set of elements whose setup throws.
PolyfillCustomElements(st, root, throwing) ==
    LET probe == ProbeIsDue(st.polyfillIsNeeded)
        checkDef == IF probe /\ st.checkDefinition = "undefined"
                    THEN "own" ELSE st.checkDefinition
        \* div instanceof WebComponentCheck
        isInstance == supportsIs /\ checkDef = "own"
        needed == IF probe THEN JsBoolean(~isInstance) ELSE st.polyfillIsNeeded
        begun == [polyfillIsNeeded |-> needed,
                  checkDefinition |-> checkDef,
                  probeCount |-> st.probeCount + (IF probe THEN 1 ELSE 0),
                  polyfillCalls |-> st.polyfillCalls + 1,
                  setupLog |-> <<>>,
                  alertLog |-> <<>>]
    IN IF needed = JsBoolean(TRUE) /\ webComponentPolyfills.t = "array"
       THEN ForPolyfills(1, webComponentPolyfills.v, root, throwing, begun)
       ELSE begun

\* The module state as a record.
ModuleState ==
    [polyfillIsNeeded |-> polyfillIsNeeded,
     checkDefinition |-> checkDefinition,
     probeCount |-> probeCount,
     polyfillCalls |-> polyfillCalls,
     setupLog |-> setupLog,
     alertLog |-> alertLog]

SetModuleState(st) ==
    /\ polyfillIsNeeded' = st.polyfillIsNeeded
    /\ checkDefinition' = st.checkDefinition
    /\ probeCount' = st.probeCount
    /\ polyfillCalls' = st.polyfillCalls
    /\ setupLog' = st.setupLog
    /\ alertLog' = st.alertLog

\* The DOMContentLoaded listeners run in order; each is runPolyfill, which
\* calls polyfillCustomElements(document).
RECURSIVE DispatchListeners(_, _, _)
DispatchListeners(ls, st, throwing) ==
    IF ls = <<>> THEN st
    ELSE DispatchListeners(Tail(ls),
                           PolyfillCustomElements(st, Document, throwing),
                           throwing)

\* History: the arguments of the last call of polyfillCustomElements with the
\* registry it read, and the registry when DOMContentLoaded fired.
NoCall == [root |-> 0 - 1, throwing |-> {}, polyfills |-> JsUndefined]
NotLoaded == [polyfills |-> JsUndefined, registered |-> <<>>]

InitPoly ==
    /\ polyfillIsNeeded = JsNull
    /\ webComponentPolyfills = JsUndefined
    /\ listeners = <<>>
    /\ domContentLoaded = FALSE
    /\ supportsIs \in BOOLEAN
    /\ checkDefinition \in {"undefined", "other"}
    /\ probeCount = 0
    /\ polyfillCalls = 0
    /\ runPolyfillCalls = 0
    /\ registered = <<>>
    /\ setupLog = <<>>
    /\ alertLog = <<>>
    /\ lastCall = NoCall
    /\ atLoad = NotLoaded

IdlePoly ==
    /\ polyfillIsNeeded = JsNull
    /\ webComponentPolyfills = JsUndefined
    /\ listeners = <<>>
    /\ domContentLoaded = FALSE
    /\ supportsIs = TRUE
    /\ checkDefinition = "undefined"
    /\ probeCount = 0
    /\ polyfillCalls = 0
    /\ runPolyfillCalls = 0
    /\ registered = <<>>
    /\ setupLog = <<>>
    /\ alertLog = <<>>
    /\ lastCall = NoCall
    /\ atLoad = NotLoaded

\* defineExtendsPolyfill(element, extendsElement, setup)
DefineExtendsPolyfill(entry) ==
    /\ Len(registered) < MaxPolyfills
    /\ webComponentPolyfills' =
           [t |-> "array",
            v |-> Append(IF webComponentPolyfills.t = "array"
                         THEN webComponentPolyfills.v ELSE <<>>, entry)]
    /\ listeners' = AddEventListener(listeners, "runPolyfill")
    /\ registered' = Append(registered, entry)
    /\ UNCHANGED <<polyfillIsNeeded, domContentLoaded, supportsIs, checkDefinition,
                   probeCount, polyfillCalls, runPolyfillCalls, setupLog, alertLog,
                   lastCall, atLoad>>
    /\ UNCHANGED <<escVars, domVars, setupVars, bindVars, animVars>>

\* The browser fires DOMContentLoaded, once.
DOMContentLoaded(throwing) ==
    /\ ~domContentLoaded
    /\ polyfillCalls + Len(listeners) <= MaxCalls
    /\ domContentLoaded' = TRUE
    /\ runPolyfillCalls' = runPolyfillCalls + Len(listeners)
    /\ SetModuleState(DispatchListeners(listeners, ModuleState, throwing))
    /\ lastCall' = IF listeners = <<>> THEN lastCall
                   ELSE [root |-> Document, throwing |-> throwing,
                         polyfills |-> webComponentPolyfills]
    /\ atLoad' = [polyfills |-> webComponentPolyfills, registered |-> registered]
    /\ UNCHANGED <<webComponentPolyfills, listeners, supportsIs, registered>>
    /\ UNCHANGED <<escVars, domVars, setupVars, bindVars, animVars>>

\* polyfillCustomElements(rootElement) called by a component of the page.
CallPolyfillCustomElements(root, throwing) ==
    /\ polyfillCalls < MaxCalls
    /\ SetModuleState(PolyfillCustomElements(ModuleState, root, throwing))
    /\ lastCall' = [root |-> root, throwing |-> throwing,
                    polyfills |-> webComponentPolyfills]
    /\ UNCHANGED <<webComponentPolyfills, listeners, domContentLoaded, supportsIs,
                   runPolyfillCalls, registered, atLoad>>
    /\ UNCHANGED <<escVars, domVars, setupVars, bindVars, animVars>>

\* ------------------------------------------------------------------------
\* getBindValue, bindAttrTmpl
\* ------------------------------------------------------------------------

maxLoop == 100

\* An object is a function from property names to values.
JsObject(props) == [t |-> "object", v |-> props]

\* The global object: window.window is window, window.g is a string.
Window == [t |-> "window"]

\* typeof value === 'object' && value !== null
IsObject(val) == val.t \in {"object", "window"}

\* value[name]
GetProperty(val, name) ==
    CASE val.t = "window" ->
            IF name = <<"w", "i", "n", "d", "o", "w">> THEN Window
            ELSE IF name = <<"g">> THEN JsString(<<"G">>)
            ELSE JsUndefined
      [] val.t = "object" ->
            IF name \in DOMAIN val.v THEN val.v[name] ELSE JsUndefined
      [] OTHER -> JsUndefined

RECURSIVE WalkKeys(_, _, _)
WalkKeys(val, keys, n) ==
    IF n > Len(keys) THEN val
    ELSE WalkKeys(IF IsObject(val) THEN GetProperty(val, keys[n]) ELSE JsNull,
                  keys, n + 1)

\* getBindValue(data, key)
getBindValue(dat, key) ==
    LET keys == Split(key, ".")
        start == IF Len(keys) > 1 /\ keys[1] = <<"w", "i", "n", "d", "o", "w">>
                 THEN Window ELSE dat
        val == WalkKeys(start, keys, 1)
    IN IF val = JsUndefined THEN JsNull ELSE val

\* value + boundValue + value: the string a value is concatenated as.
ConcatString(val) == IF val.t = "string" THEN val.v ELSE ToJsString(val)

\* The loop goes on: both brackets are found, the closing one after the
\* opening one.
HasKey(val) ==
    LET posStart == IndexOf(val, "[")
        posEnd == IndexOf(val, "]")
    IN ~(posStart = 0 - 1 \/ posEnd = 0 - 1 \/ posEnd < posStart)

\* One turn of the while loop on a value with a key: the first [key] is
\* replaced by its bound value.
Substitute(val, dat) ==
    LET posStart == IndexOf(val, "[")
        posEnd == IndexOf(val, "]")
        key == Substring(val, posStart + 1, posEnd)
        found == getBindValue(dat, key)
        boundValue == IF found = JsUndefined THEN JsString(<<>>) ELSE found
    IN Substring(val, 0, posStart) \o ConcatString(boundValue)
           \o Substring(val, posEnd + 1, Len(val))

\* loopCount++
NextLoopCount(n) == n + 1

\* A slip in the loop condition: loopCount <= maxLoop allows one turn more.
LoopGoesOnPastCap(val, n) == n <= maxLoop /\ HasKey(val)

\* while (loopCount < maxLoop) { ... if (no key) break; ... }
LoopGoesOn(val, n) == n < maxLoop /\ HasKey(val)

\* The whole while loop on a template: the value the attribute is set to.
RECURSIVE ParseTemplate(_, _, _)
ParseTemplate(val, dat, n) ==
    IF LoopGoesOn(val, n) THEN ParseTemplate(Substitute(val, dat), dat, n + 1)
    ELSE val

\* element.getAttribute(name): null for an attribute the element does not have.
GetAttribute(el, name) == IF name \in DOMAIN el THEN el[name] ELSE JsNull

\* attribute + '-' + attr
SavedName(attribute, name) == attribute \o "-" \o name

\* A slip: the template is always read from the attribute itself, the saved
\* copy is ignored.
LoadTemplateFromAttr(saved, current) == current

\* The template of an attr: the saved copy, or the attribute's own value at
\* the first call.
LoadTemplate(saved, current) == IF saved = JsNull THEN current ELSE saved

\* The element's bind attribute and the attributes it can list.
BindAttribute == "data-bind-attr"

AttrNames ==
    {"href", "title", "data-bind-attr-href", "data-bind-attr-title",
     "data-bind-attr-data-bind-attr-href"}

\* element.getAttribute(attribute).split(',').map(s => s.trim()), the value
\* being a sequence of attribute names, "," and " ".
RECURSIVE SplitTrimFrom(_, _)
SplitTrimFrom(tokens, item) ==
    LET close == IF Len(item) = 1 THEN item[1]
                 ELSE IF item = <<>> THEN ""
                 ELSE "?"
    IN IF tokens = <<>> THEN <<close>>
       ELSE IF Head(tokens) = "," THEN <<close>> \o SplitTrimFrom(Tail(tokens), <<>>)
       ELSE SplitTrimFrom(Tail(tokens), Trim(Append(item, Head(tokens))))

SplitTrim(tokens) == SplitTrimFrom(tokens, <<>>)

BindLists ==
    {<<"href">>,
     <<"href", ",", " ", "title">>,
     <<" ", "title", ",">>,
     <<"href", ",", "href">>,
     <<"href", ",", "data-bind-attr-href">>,
     <<"data-bind-attr-href", ",", " ", "href">>}

TemplateChars == {"[", "]", "k"}

Templates ==
    SeqsUpTo(TemplateChars, MaxTmplLen)
        \cup {<<"/", "[", "k", "]", "/", "[", "j", "]">>,
              <<"[", "o", ".", "p", "]">>,
              <<"[", "w", "i", "n", "d", "o", "w", ".", "g", "]">>}

\* The data objects handed to bindAttrTmpl.
DataObjects ==
    {JsNull,
     JsObject(<<>>),
     JsObject((<<"k">> :> JsString(<<"v">>)) @@ (<<"j">> :> JsString(<<"w">>))),
     JsObject(<<"k">> :> JsString(<<"[", "k", "]">>)),
     JsObject((<<"k">> :> JsString(<<"[", "j", "]">>)) @@ (<<"j">> :> JsString(<<"[", "k", "]">>))),
     JsObject((<<"k">> :> JsString(<<"]", "[">>)) @@ (<<"j">> :> JsString(<<>>))),
     JsObject((<<"k">> :> JsObject(<<"p">> :> JsString(<<"x">>)))
                  @@ (<<"o">> :> JsObject(<<"p">> :> JsString(<<"q">>))))}

NoData == [t |-> "no-call"]

InitBind ==
    /\ \E href \in {JsNull} \cup {JsString(t) : t \in Templates},
          title \in {JsNull, JsString(<<"[", "j", "]">>)} :
            element = [n \in AttrNames |->
                          IF n = "href" THEN href
                          ELSE IF n = "title" THEN title
                          ELSE JsNull]
    /\ bindList \in BindLists
    /\ bindPc = "idle"
    /\ data = NoData
    /\ attributes = <<>>
    /\ attr = ""
    /\ value = JsNull
    /\ tmplLoopCount = 0
    /\ original = element
    /\ lastData = NoData
    /\ rebound = FALSE
    /\ substitutions = 0

IdleBind ==
    /\ element = [n \in AttrNames |-> JsNull]
    /\ bindList = <<>>
    /\ bindPc = "idle"
    /\ data = NoData
    /\ attributes = <<>>
    /\ attr = ""
    /\ value = JsNull
    /\ tmplLoopCount = 0
    /\ original = element
    /\ lastData = NoData
    /\ rebound = FALSE
    /\ substitutions = 0

\* bindAttrTmpl(element, attribute, data): the attribute list is split.
BindAttrTmpl(dat) ==
    /\ bindPc = "idle"
    /\ bindPc' = "for"
    /\ data' = dat
    /\ attributes' = SplitTrim(bindList)
    /\ UNCHANGED <<element, bindList, attr, value, tmplLoopCount, original,
                   lastData, rebound, substitutions>>
    /\ UNCHANGED <<escVars, domVars, setupVars, polyVars, animVars>>

\* The head of the for loop: the template of the next attr is read, and saved
\* when it was not saved before.
BindForAttr ==
    /\ bindPc = "for"
    /\ attributes # <<>>
    /\ LET a == Head(attributes)
           saved == GetAttribute(element, SavedName(BindAttribute, a))
           tmpl == LoadTemplate(saved, GetAttribute(element, a))
       IN /\ attr' = a
          /\ value' = tmpl
          /\ element' = IF saved = JsNull /\ tmpl # JsNull
                         THEN [element EXCEPT ![SavedName(BindAttribute, a)] = tmpl]
                         ELSE element
          /\ IF tmpl # JsNull
             THEN bindPc' = "while" /\ attributes' = attributes
             ELSE bindPc' = "for" /\ attributes' = Tail(attributes)
    /\ tmplLoopCount' = 0
    /\ substitutions' = 0
    /\ UNCHANGED <<bindList, data, original, lastData, rebound>>
    /\ UNCHANGED <<escVars, domVars, setupVars, polyVars, animVars>>

\* One turn of the while loop that substitutes a key.
BindWhile ==
    /\ bindPc = "while"
    /\ LoopGoesOn(value.v, tmplLoopCount)
    /\ value' = JsString(Substitute(value.v, data))
    /\ tmplLoopCount' = NextLoopCount(tmplLoopCount)
    /\ substitutions' = substitutions + 1
    /\ UNCHANGED <<element, bindList, bindPc, data, attributes, attr, original,
                   lastData, rebound>>
    /\ UNCHANGED <<escVars, domVars, setupVars, polyVars, animVars>>

\* The loop is left, by its condition or by break: element.setAttribute(attr, value).
BindSetAttribute ==
    /\ bindPc = "while"
    /\ ~LoopGoesOn(value.v, tmplLoopCount)
    /\ element' = [element EXCEPT ![attr] = value]
    /\ bindPc' = "for"
    /\ attributes' = Tail(attributes)
    /\ UNCHANGED <<bindList, data, attr, value, tmplLoopCount, original,
                   lastData, rebound, substitutions>>
    /\ UNCHANGED <<escVars, domVars, setupVars, polyVars, animVars>>

\* The for loop is over: bindAttrTmpl returns.
BindReturn ==
    /\ bindPc = "for"
    /\ attributes = <<>>
    /\ bindPc' = "idle"
    /\ lastData' = data
    /\ rebound' = (rebound \/ (lastData # NoData /\ lastData # data))
    /\ UNCHANGED <<element, bindList, data, attributes, attr, value, tmplLoopCount,
                   original, substitutions>>
    /\ UNCHANGED <<escVars, domVars, setupVars, polyVars, animVars>>

\* ------------------------------------------------------------------------
\* <animation-service>
\* ------------------------------------------------------------------------

\* document.querySelectorAll('[data-animate]'), in document order.
Animated == 1..MaxAnimated

\* new IntersectionObserver(callback): no target, no entry queued, and for no
\* target an intersection state reported yet.
NewObserver ==
    [targets |-> {}, queue |-> <<>>, reported |-> [e \in Animated |-> "none"]]

\* animationObserver.observe(element) for each element of the set.
Observe(observer, elements) ==
    [observer EXCEPT !.targets = @ \cup elements]

\* The observer callback on the entries: an intersecting entry adds the class
\* of its target and unobserves the target.
RECURSIVE ObserverCallback(_, _)
ObserverCallback(entries, st) ==
    IF entries = <<>> THEN st
    ELSE LET entry == Head(entries) IN
         ObserverCallback(Tail(entries),
             IF entry.isIntersecting
             THEN [classList |-> st.classList \cup {entry.target},
                   targets |-> st.targets \ {entry.target}]
             ELSE st)

\* The intersection state of an element, as the browser reports it.
IntersectionState(e) == IF e \in intersecting THEN "in" ELSE "out"

\* The entries the browser queues for an observer: one for each target whose
\* intersection state differs from the state last reported for it.
RECURSIVE NewEntries(_, _)
NewEntries(observer, e) ==
    IF e > MaxAnimated THEN <<>>
    ELSE (IF e \in observer.targets /\ observer.reported[e] # IntersectionState(e)
          THEN <<[target |-> e, isIntersecting |-> e \in intersecting]>>
          ELSE <<>>) \o NewEntries(observer, e + 1)

InitAnim ==
    /\ classList \in SUBSET Animated
    /\ intersecting \in SUBSET Animated
    /\ observers = <<>>
    /\ loads = 0

IdleAnim ==
    /\ classList = {}
    /\ intersecting = {}
    /\ observers = <<>>
    /\ loads = 0

\* onLoad()
onLoad ==
    LET elements == {el \in Animated : el \notin classList} IN
    /\ observers' = IF Cardinality(elements) = 0 THEN observers
                     ELSE Append(observers, Observe(NewObserver, elements))
    /\ UNCHANGED <<classList, intersecting>>

\* The base class WebComponentService runs onLoad: when the element is
\* connected, and again when the content of the page was rendered anew.
ServiceRunsOnLoad ==
    /\ loads < MaxLoads
    /\ loads' = loads + 1
    /\ onLoad
    /\ UNCHANGED <<escVars, domVars, setupVars, polyVars, bindVars>>

\* The user scrolls: an element enters or leaves the viewport.
Scroll(e) ==
    /\ intersecting' = IF e \in intersecting THEN intersecting \ {e}
                        ELSE intersecting \cup {e}
    /\ UNCHANGED <<classList, observers, loads>>
    /\ UNCHANGED <<escVars, domVars, setupVars, polyVars, bindVars>>

\* The browser updates the intersection observations of an observer.
UpdateObservations(o) ==
    LET entries == NewEntries(observers[o], 1) IN
    /\ entries # <<>>
    /\ Len(observers[o].queue) + Len(entries) <= MaxQueue
    /\ observers' = [observers EXCEPT
           ![o].queue = @ \o entries,
           ![o].reported = [e \in Animated |->
                               IF e \in observers[o].targets
                               THEN IntersectionState(e) ELSE @[e]]]
    /\ UNCHANGED <<classList, intersecting, loads>>
    /\ UNCHANGED <<escVars, domVars, setupVars, polyVars, bindVars>>

\* The browser calls the callback of an observer with its queued entries.
NotifyObserver(o) ==
    /\ observers[o].queue # <<>>
    /\ LET st == ObserverCallback(observers[o].queue,
                                  [classList |-> classList,
                                   targets |-> observers[o].targets])
       IN /\ classList' = st.classList
          /\ observers' = [observers EXCEPT ![o].queue = <<>>,
                                             ![o].targets = st.targets]
    /\ UNCHANGED <<intersecting, loads>>
    /\ UNCHANGED <<escVars, domVars, setupVars, polyVars, bindVars>>

\* ------------------------------------------------------------------------
\* Specifications
\* ------------------------------------------------------------------------

InitEscape == InitEsc /\ IdleDom /\ IdleSetup /\ IdlePoly /\ IdleBind /\ IdleAnim
NextEscape == CallEscapeHtml
SpecEscape == InitEscape /\ [][NextEscape]_vars

InitAttached == InitDom /\ IdleEsc /\ IdleSetup /\ IdlePoly /\ IdleBind /\ IdleAnim
NextAttached == IsAttachedEnter \/ IsAttachedLoop \/ IsAttachedExit
SpecAttached == InitAttached /\ [][NextAttached]_vars

InitSetupSpec == InitSetup /\ IdleEsc /\ IdleDom /\ IdlePoly /\ IdleBind /\ IdleAnim
NextSetup ==
    \/ \E name \in CustomElementNames, kind \in DefinitionKinds :
            CustomElementsDefine(name, kind)
    \/ \E c \in SetupElements : SetNotSetup(c)
    \/ \E c \in SetupElements : RemoveNotSetup(c)
    \/ ComponentsAreSetup
    \/ AwaitResumes
    \/ IntervalCallback
SpecSetup == InitSetupSpec /\ [][NextSetup]_vars

\* The elements with an [is] attribute: those a setup callback can be given.
ThrowingSets == SUBSET {e \in PageIds : PageElements[e].is # ""}

InitPolyfill == InitPoly /\ IdleEsc /\ IdleDom /\ IdleSetup /\ IdleBind /\ IdleAnim
NextPolyfill ==
    \/ \E entry \in PolyfillEntries : DefineExtendsPolyfill(entry)
    \/ \E throwing \in ThrowingSets : DOMContentLoaded(throwing)
    \/ \E root \in RootElements, throwing \in ThrowingSets :
            CallPolyfillCustomElements(root, throwing)
SpecPolyfill == InitPolyfill /\ [][NextPolyfill]_vars

InitBinding == InitBind /\ IdleEsc /\ IdleDom /\ IdleSetup /\ IdlePoly /\ IdleAnim
BindRuns == BindForAttr \/ BindWhile \/ BindSetAttribute \/ BindReturn
NextBinding ==
    \/ \E dat \in DataObjects : BindAttrTmpl(dat)
    \/ BindForAttr
    \/ BindWhile
    \/ BindSetAttribute
    \/ BindReturn
SpecBinding == InitBinding /\ [][NextBinding]_vars

InitAnimation == InitAnim /\ IdleEsc /\ IdleDom /\ IdleSetup /\ IdlePoly /\ IdleBind
NextAnimation ==
    \/ ServiceRunsOnLoad
    \/ \E e \in Animated : Scroll(e)
    \/ \E o \in 1..Len(observers) : UpdateObservations(o)
    \/ \E o \in 1..Len(observers) : NotifyObserver(o)
SpecAnimation == InitAnimation /\ [][NextAnimation]_vars

\* ------------------------------------------------------------------------
\* C8: escapeHtml
\* ------------------------------------------------------------------------

EntityOf(ch) ==
    CASE ch = "&" -> EntAmp
      [] ch = "\"" -> EntQuot
      [] ch = "'" -> EntApos
      [] ch = "<" -> EntLt
      [] ch = ">" -> EntGt
      [] OTHER -> <<ch>>

CharMap(s) == Concat([i \in 1..Len(s) |-> EntityOf(s[i])])

\* C8: for every string the result of escapeHtml is the character-by-character
\* map of the string (each of & " ' < > replaced by its entity exactly once,
\* every other character kept), and undefined, null and numbers come back
\* unchanged.
C8_EscapeIsCharMap ==
    escOut # NotCalled =>
        /\ escIn.t = "string" => escOut = JsString(CharMap(escIn.v))
        /\ escIn.t \in {"undefined", "null", "number"} => escOut = escIn

\* A string holding an ampersand next to another escaped character has been
\* escaped.
C8_Witness ==
    /\ escOut # NotCalled
    /\ escIn.t = "string"
    /\ Len(escIn.v) >= 2
    /\ \E i \in 1..Len(escIn.v) : escIn.v[i] = "&"
    /\ \E i \in 1..Len(escIn.v) : escIn.v[i] \in {"<", "\"", "'", ">"}

\* ------------------------------------------------------------------------
\* C9: isAttachedToDom
\* ------------------------------------------------------------------------

\* C9: isAttachedToDom returns true exactly when the document is reachable
\* from the element by following parentNode links, an element whose parentNode
\* is the document itself included.
C9_TrueIffDocumentReachable ==
    walkPc = "returned" =>
        (walkResult <=> Document \in AncestorsIn(parentNode, walkElement, MaxNodes + 1))

\* ------------------------------------------------------------------------
\* C1, C2: componentsAreSetup
\* ------------------------------------------------------------------------

C2_ResolvedByPollMaxLoops ==
    (setupPc = "polling" /\ loopCount >= maxLoops) => (resolved /\ ~interval)

\* ------------------------------------------------------------------------
\* C5, C7, C10: polyfill detection and setup
\* ------------------------------------------------------------------------

\* C5: polyfillIsNeeded is set only once: the probe runs only in the first
\* call of polyfillCustomElements, and once the flag is true or false no step
\* changes it.
C5_FlagSetOnce ==
    [][/\ polyfillIsNeeded # JsNull => polyfillIsNeeded' = polyfillIsNeeded
       /\ probeCount' # probeCount => (polyfillCalls = 0 /\ probeCount' = 1)]_vars

\* Two calls or more have been made with the flag cached as false.
C5_Witness ==
    /\ polyfillCalls >= 2
    /\ probeCount = 1
    /\ polyfillIsNeeded = JsBoolean(FALSE)

\* C7: however many times defineExtendsPolyfill was called before
\* DOMContentLoaded, runPolyfill runs once when the event fires, and the
\* registry then holds every registered entry in registration order.
C7_RunPolyfillOnce ==
    (domContentLoaded /\ atLoad.registered # <<>>) =>
        /\ runPolyfillCalls = 1
        /\ atLoad.polyfills = [t |-> "array", v |-> atLoad.registered]

\* DOMContentLoaded fired after two registrations of different polyfills.
C7_Witness ==
    /\ domContentLoaded
    /\ Len(atLoad.registered) >= 2
    /\ atLoad.registered[1] # atLoad.registered[2]
    /\ runPolyfillCalls = 1

\* The pairs (index of a registered polyfill, element under the root matching
\* '<extendsElement>[is="<element>"]') of the last call.
MatchingPairs ==
    IF lastCall.polyfills.t # "array" THEN {}
    ELSE {p \in (1..Len(lastCall.polyfills.v)) \X PageIds :
            /\ IsUnder(p[2], lastCall.root)
            /\ PageElements[p[2]].localName = lastCall.polyfills.v[p[1]].extendsElement
            /\ PageElements[p[2]].is = lastCall.polyfills.v[p[1]].element}

\* C10: when the polyfill is needed, setup is called once for every matching
\* pair, in registry order (and document order within a polyfill), and every
\* call that throws is reported with showErrorAlert without stopping the
\* later calls; when the polyfill is not needed no setup is called.
C10_SetupOncePerPair ==
    lastCall # NoCall =>
        IF polyfillIsNeeded = JsBoolean(TRUE)
        THEN /\ \A p \in MatchingPairs :
                    Cardinality({k \in 1..Len(setupLog) : setupLog[k] = p}) = 1
             /\ \A k \in 1..Len(setupLog) : setupLog[k] \in MatchingPairs
             /\ \A k, l \in 1..Len(setupLog) :
                    k < l => \/ setupLog[k][1] < setupLog[l][1]
                             \/ /\ setupLog[k][1] = setupLog[l][1]
                                /\ setupLog[k][2] < setupLog[l][2]
             /\ alertLog = SelectSeq(setupLog, LAMBDA p : p[2] \in lastCall.throwing)
        ELSE setupLog = <<>> /\ alertLog = <<>>

\* A call on the whole document in which the first setup call threw and two
\* more setup calls followed.
C10_Witness ==
    /\ lastCall # NoCall
    /\ lastCall.root = Document
    /\ polyfillIsNeeded = JsBoolean(TRUE)
    /\ Len(setupLog) >= 3
    /\ setupLog[1][2] \in lastCall.throwing
    /\ Len(alertLog) >= 1

\* ------------------------------------------------------------------------
\* C3, C4: bindAttrTmpl
\* ------------------------------------------------------------------------

\* The attrs listed in the bind attribute.
ListedAttrs == {SplitTrim(bindList)[i] : i \in 1..Len(SplitTrim(bindList))}

\* After a finished call, attr a has its original template saved under
\* '<attribute>-<attr>' and holds that template bound against the last data.
BoundFromOriginal(a) ==
    /\ GetAttribute(element, SavedName(BindAttribute, a)) = original[a]
    /\ element[a] = JsString(ParseTemplate(original[a].v, lastData, 0))

\* C3 as stated: for each listed attr that has a template, after any sequence
\* of calls the saved template is the original one and the attr equals the
\* original template bound against the data of the last call alone.
C3_BoundFromOriginalTemplate ==
    (bindPc = "idle" /\ lastData # NoData) =>
        \A a \in ListedAttrs \cap AttrNames :
            original[a] # JsNull => BoundFromOriginal(a)

\* C3 amended: the same for each listed attr whose saved-template attribute
\* '<attribute>-<attr>' is not itself one of the listed attrs.
C3_BoundFromOriginalUnlessListed ==
    (bindPc = "idle" /\ lastData # NoData) =>
        \A a \in ListedAttrs \cap AttrNames :
            (original[a] # JsNull /\ SavedName(BindAttribute, a) \notin ListedAttrs)
                => BoundFromOriginal(a)

\* Calls with different data have finished on an href template whose bound
\* value depends on the data.
C3_Witness ==
    /\ bindPc = "idle"
    /\ rebound
    /\ "href" \in ListedAttrs
    /\ original["href"] # JsNull
    /\ HasKey(original["href"].v)
    /\ element["href"] # original["href"]
    /\ \E dat \in DataObjects :
           ParseTemplate(original["href"].v, dat, 0)
               # ParseTemplate(original["href"].v, lastData, 0)

\* C4: the template loop ends for every template and data, after at most 100
\* substitutions, and the attribute is then set to the value the loop reached.
\* The turns of the loop are counted in substitutions: the count never passes
\* maxLoop; in the loop the value is a string and the attr one of the element,
\* so that the next substitution or the closing setAttribute can run; and once
\* the loop is left the attribute holds the value the loop reached.
C4_LoopEndsWithinMaxLoop ==
    /\ substitutions <= maxLoop
    /\ bindPc = "while" =>
           (value.t = "string" /\ attr \in DOMAIN element /\ attributes # <<>>)
    /\ (bindPc # "while" /\ data # NoData /\ value # JsNull) => element[attr] = value

\* The loop was stopped by the cap on a value that still holds a key, and the
\* attribute was set.
C4_Witness ==
    /\ bindPc = "for"
    /\ substitutions = maxLoop
    /\ value # JsNull
    /\ HasKey(value.v)
    /\ element[attr] = value

\* ------------------------------------------------------------------------
\* C6: <animation-service>
\* ------------------------------------------------------------------------

\* The elements observed by the service: the targets of its observers.
Observed == UNION {observers[o].targets : o \in 1..Len(observers)}

====
